---- MODULE Spec2Model ----
(***************************************************************************)
(* Model of datasculptor/image_source.py: PathImageSource, CropImageSource *)
(* with its on-disk crop cache, and paths2image_sources.                   *)
(*                                                                         *)
(* Strings that the code splits are modelled as sequences: a source name   *)
(* is the sequence of its underscore-delimited segments (name.split('_')), *)
(* a path is the sequence of its characters.  A file in a directory is the *)
(* pair <<name, ext>>, standing for the file name name + ext.  Images are  *)
(* symbolic: the raw decode of a path, the list of preprocessing functions *)
(* applied to it so far, and, for a crop, its position in the cropper's    *)
(* output.  os.rename has its POSIX meaning (an existing destination file  *)
(* is replaced).                                                           *)
(***************************************************************************)
EXTENDS Integers, Sequences, FiniteSets, TLC

\* ------------------------------------------------------------------ bounds
NumInst == 2          \* CropImageSource instances
MaxCrops == 2         \* the cropper yields 0..MaxCrops crops
MaxPathLen == 3       \* characters in a path
MaxListPathLen == 1   \* characters in a path of a list of several paths
MaxPaths == 2         \* paths handed to paths2image_sources
MaxFns == 2           \* preprocessing functions in a chain

Inst == 1..NumInst

None == "None"

\* ----------------------------------------------------------------- strings
Digits == <<"0", "1", "2", "3", "4", "5", "6", "7", "8", "9">>

\* str(i) for the crop positions the model reaches
Str(i) == Digits[i + 1]

\* name.split('_')[:-1]
DropLast(segs) == SubSeq(segs, 1, Len(segs) - 1)

\* '_'.join(segs) + '_' + s, as the segments of the resulting string
JoinUnderscore(segs, s) == IF segs = <<>> THEN <<"", s>> ELSE Append(segs, s)

\* os.path.join(dir, name + image_ext): the file of a directory
FileOf(nm, ext) == <<nm, ext>>

\* CropFile with the crops counted from 1
CropFileFromOne(nm, ext, i) == FileOf(JoinUnderscore(DropLast(nm), Str(i + 1)), ext)

\* line 101: '_'.join(name.split('_')[:-1]) + '_' + str(i) + image_ext
CropFile(nm, ext, i) == FileOf(JoinUnderscore(DropLast(nm), Str(i)), ext)

\* ------------------------------------------------------------- directories
EmptyDir == [f \in {} |-> f]

Put(dir, f, content) ==
    [g \in (DOMAIN dir) \cup {f} |-> IF g = f THEN content ELSE dir[g]]

Remove(dir, f) == [g \in (DOMAIN dir) \ {f} |-> dir[g]]

Exists(dir, f) == f \in DOMAIN dir

\* ------------------------------------------------------------------ images
\* cv2.imdecode(np.fromfile(path)): the raw decode of the file at path
Decode(path) == [raw |-> path, ops |-> <<>>]

\* fn(img) for an opaque preprocessing function fn
Apply(fn, img) == [raw |-> img.raw, ops |-> Append(img.ops, fn)]

\* cropper_fn(img) for a cropper that yields n crops
Cropper(n, img) == [j \in 1..n |-> [of |-> img, part |-> j - 1]]

\* --------------------------------------------------------- PathImageSource
NoList == <<None>>    \* preprocessing_fns = None
NoName == <<None>>    \* name = None

RECURSIVE LastIndexOf(_, _, _)
\* the largest k <= n with s[k] = ch, or 0
LastIndexOf(s, ch, n) ==
    IF n = 0 THEN 0
    ELSE IF s[n] = ch THEN n ELSE LastIndexOf(s, ch, n - 1)

\* os.path.basename(path)
Basename(path) ==
    SubSeq(path, LastIndexOf(path, "/", Len(path)) + 1, Len(path))

RECURSIVE FirstIndexOf(_, _, _)
\* the smallest k >= n with s[k] = ch, or 0
FirstIndexOf(s, ch, n) ==
    IF n > Len(s) THEN 0
    ELSE IF s[n] = ch THEN n ELSE FirstIndexOf(s, ch, n + 1)

\* SplitextRoot cutting at the first dot that follows another character
SplitextRootFirstDot(file) ==
    LET lead == CHOOSE k \in 1..(Len(file) + 1) :
                    /\ \A q \in 1..(k - 1) : file[q] = "."
                    /\ k <= Len(file) => file[k] # "."
        dot == FirstIndexOf(file, ".", lead)
    IN  IF dot > 0 THEN SubSeq(file, 1, dot - 1) ELSE file

\* os.path.splitext(file)[0], for a file name without directory: the part
\* before the last dot, unless only dots precede that dot
SplitextRoot(file) ==
    LET dot == LastIndexOf(file, ".", Len(file))
    IN  IF dot > 0 /\ \E k \in 1..(dot - 1) : file[k] # "."
        THEN SubSeq(file, 1, dot - 1)
        ELSE file

\* PathImageSource.__init__
PathImageSourceInit(path, preprocessing_fns, name) ==
    [path |-> path,
     preprocessing_fns |->
         IF preprocessing_fns = NoList \/ preprocessing_fns = <<>>
         THEN <<>> ELSE preprocessing_fns,
     name |->
         IF name = NoName \/ name = <<>>
         THEN SplitextRoot(Basename(path)) ELSE name]

RECURSIVE ReadLoop(_, _, _)
\* the loop of PathImageSource.read from its k-th function on
ReadLoop(img, fns, k) ==
    IF k > Len(fns) THEN img
    ELSE ReadLoop(Apply(fns[k], img), fns, k + 1)

\* PathRead applying the functions last to first
PathReadReversed(src) ==
    ReadLoop(Decode(src.path),
             [k \in 1..Len(src.preprocessing_fns) |->
                 src.preprocessing_fns[Len(src.preprocessing_fns) + 1 - k]],
             1)

\* PathImageSource.read
PathRead(src) == ReadLoop(Decode(src.path), src.preprocessing_fns, 1)

RECURSIVE SourcesLoop(_, _, _, _)
\* the loop of paths2image_sources from its k-th path on
SourcesLoop(image_sources, paths, preprocess_fns, k) ==
    IF k > Len(paths) THEN image_sources
    ELSE SourcesLoop(
             Append(image_sources,
                    PathImageSourceInit(paths[k], preprocess_fns, NoName)),
             paths, preprocess_fns, k + 1)

\* paths2image_sources
Paths2ImageSources(paths, preprocess_fns) ==
    SourcesLoop(<<>>, paths, preprocess_fns, 1)

\* --------------------------------------------------------- CropImageSource
\* CropImageSource.__init__; cropper_fn is the number of crops it yields
CropImageSourceInit(original_image_source, idx, cropper_fn, name) ==
    [original_image_source |-> original_image_source,
     idx |-> idx,
     cropper_fn |-> cropper_fn,
     name |-> name]

\* CropRead returning the crop of the instance's idx
CropReadCropped(self) ==
    LET img == PathRead(self.original_image_source)
    IN  IF self.idx < self.cropper_fn
        THEN Cropper(self.cropper_fn, img)[self.idx + 1]
        ELSE img

\* CropImageSource.read
CropRead(self) == PathRead(self.original_image_source)

\* the crops of a source: cropper_fn(self.read())
CropsOf(self) == Cropper(self.cropper_fn, CropRead(self))

\* CachedFile named after the instance's idx
CachedFileByIdx(self, ext) == CropFile(self.name, ext, self.idx)

\* cached_file, line 95
CachedFile(self, ext) == FileOf(self.name, ext)

\* one turn of the loop of lines 100-101: crop i is written into the cache
WriteCrop(dir, self, ext, i) ==
    Put(dir, CropFile(self.name, ext, i), CropsOf(self)[i + 1])

RECURSIVE WriteCrops(_, _, _, _)
\* the loop of lines 100-101 from crop i on
WriteCrops(dir, self, ext, i) ==
    IF i >= self.cropper_fn THEN dir
    ELSE WriteCrops(WriteCrop(dir, self, ext, i), self, ext, i + 1)

\* Hit of a save that never looks into the cache
HitNever(dir, self, ext) == FALSE

\* os.path.exists(cached_file), line 97
Hit(dir, self, ext) == Exists(dir, CachedFile(self, ext))

\* the cache when the move of line 104 starts
Populated(dir, self, ext) ==
    IF Hit(dir, self, ext) THEN dir
    ELSE WriteCrops(dir, self, ext, 0)

\* what the branch without cache_dir raises (lines 88-91): crops[self.idx]
\* is out of range, or os.path.join(None, ...) fails
NoCacheError(self) ==
    IF self.idx >= self.cropper_fn THEN "IndexError" ELSE "TypeError"

\* MoveOut of a save that copies the file
MoveOutCopy(dir, f) == dir

\* MoveOut of a save that clears the cache after its move
MoveOutAll(dir, f) == EmptyDir

\* the move of line 104, on the cache: the file leaves the cache
MoveOut(dir, f) == Remove(dir, f)

\* the move of line 104, on the target directory
MoveIn(tdir, f, content) == Put(tdir, f, content)

\* ------------------------------------------------------------------- state
VARIABLES
    insts,      \* the CropImageSource instances
    cacheDir,   \* whether the cache directory exists
    cache,      \* the files of the cache directory
    cache0,     \* the files of the cache directory at the start
    target,     \* the files of the target directory
    pc,         \* where each instance's save stands
    imageExt,   \* image_ext of the saves
    cdirOf,     \* cache_dir of each instance's save
    wi,         \* i of the loop of line 100
    outcome,    \* how each instance's save ended
    cropCalls,  \* calls of cropper_fn
    readCalls,  \* calls of original_image_source.read
    pPaths,     \* paths handed to paths2image_sources
    pFns,       \* preprocess_fns handed to paths2image_sources
    sources,    \* what paths2image_sources returned
    stage,      \* "input" before paths2image_sources has run, then "sources"
    lastRead    \* the last read(): who was asked, of which source, the result

vars == <<insts, cacheDir, cache, cache0, target, pc, imageExt, cdirOf, wi,
          outcome, cropCalls, readCalls, pPaths, pFns, sources, stage, lastRead>>

saveVars == <<insts, cacheDir, cache, cache0, target, pc, imageExt, cdirOf, wi,
              outcome, cropCalls, readCalls>>

pureVars == <<pPaths, pFns, sources, stage>>

\* ------------------------------------------------------------------ inputs
Exts == {".jpg", ".png"}
DefaultExt == ".jpg"
CacheDirName == "/cache"

\* the names the instances are given: siblings cat_0, cat_1, ..., a name
\* without underscore and a name with two underscores
Names ==
    [j \in 1..MaxCrops |-> <<"cat", Str(j - 1)>>] \o << <<"0">>, <<"my", "cat", "1">> >>

\* the (name, idx) pairs the instances are built from, numbered
NumCands == 2 * Len(Names)
CandName(c) == Names[(c + 1) \div 2]

\* the instances are numbered in the order of their (name, idx) pair: every
\* other numbering of the same instances is a renaming of one of these
Numberings ==
    {r \in [Inst -> 1..NumCands] : \A i, j \in Inst : i < j => r[i] <= r[j]}

IdxSet == {0, MaxCrops - 1}
CandIdx(c) == IF c % 2 = 1 THEN 0 ELSE MaxCrops - 1
FnSet == {"f", "g"}
PathChars == {"/", ".", "a"}

SeqsUpTo(S, n) == UNION {[1..k -> S] : k \in 0..n}

PathSet == SeqsUpTo(PathChars, MaxPathLen)
FnsSet == SeqsUpTo(FnSet, MaxFns) \cup {NoList}
PathLists ==
    {<<p>> : p \in PathSet} \cup SeqsUpTo(SeqsUpTo(PathChars, MaxListPathLen), MaxPaths)

\* the source the crops are taken from
OrigSource == PathImageSourceInit(<<"a", ".", "a">>, <<"f">>, NoName)

\* what earlier saves of siblings cat_0, cat_1, ... can have left in the cache
LeftInCache(n) ==
    LET full == WriteCrops(EmptyDir,
                           CropImageSourceInit(OrigSource, 0, n, <<"cat", "0">>),
                           DefaultExt, 0)
    IN  {[f \in S |-> full[f]] : S \in SUBSET (DOMAIN full)}

NoRead == [by |-> "none", k |-> 0, out |-> Decode(<<>>)]

InitSave ==
    /\ \E n \in 0..MaxCrops :
         /\ \E r \in Numberings :
              insts = [i \in Inst |->
                         CropImageSourceInit(OrigSource, CandIdx(r[i]), n,
                                             CandName(r[i]))]
         /\ cache0 \in LeftInCache(n)
    /\ cache = cache0
    /\ cacheDir \in BOOLEAN
    /\ cache0 # EmptyDir => cacheDir
    /\ target = EmptyDir
    /\ pc = [i \in Inst |-> "idle"]
    /\ imageExt \in Exts
    /\ cdirOf = [i \in Inst |-> None]
    /\ wi = [i \in Inst |-> 0]
    /\ outcome = [i \in Inst |-> "none"]
    /\ cropCalls = 0
    /\ readCalls = 0

Init ==
    /\ InitSave
    /\ pPaths = <<>>
    /\ pFns = NoList
    /\ sources = <<>>
    /\ stage = "input"
    /\ lastRead = NoRead

\* ------------------------------------------- CropImageSource.save, stepwise
\* SaveNoCache writing the crop into the target directory
SaveNoCacheIntoTarget(i) ==
    /\ readCalls' = readCalls + 1
    /\ cropCalls' = cropCalls + 1
    /\ IF insts[i].idx < insts[i].cropper_fn
       THEN /\ target' = Put(target, FileOf(insts[i].name, imageExt),
                             CropsOf(insts[i])[insts[i].idx + 1])
            /\ outcome' = [outcome EXCEPT ![i] = "ok"]
            /\ pc' = [pc EXCEPT ![i] = "done"]
       ELSE /\ outcome' = [outcome EXCEPT ![i] = "IndexError"]
            /\ pc' = [pc EXCEPT ![i] = "failed"]
            /\ UNCHANGED target
    /\ UNCHANGED <<cacheDir, cache, wi>>

\* lines 87-92: the branch without cache_dir
SaveNoCache(i) ==
    /\ readCalls' = readCalls + 1
    /\ cropCalls' = cropCalls + 1
    /\ outcome' = [outcome EXCEPT ![i] = NoCacheError(insts[i])]
    /\ pc' = [pc EXCEPT ![i] = "failed"]
    /\ UNCHANGED <<cacheDir, cache, target, wi>>

\* lines 85-95: the call, and os.makedirs
Begin(i) ==
    /\ pc[i] = "idle"
    /\ \E cdir \in {None, CacheDirName} :
         /\ cdirOf' = [cdirOf EXCEPT ![i] = cdir]
         /\ IF cdir = None
            THEN SaveNoCache(i)
            ELSE /\ cacheDir' = TRUE
                 /\ pc' = [pc EXCEPT ![i] = "check"]
                 /\ UNCHANGED <<cache, target, wi, outcome, cropCalls, readCalls>>
    /\ UNCHANGED <<insts, cache0, imageExt, pPaths, pFns, sources, stage, lastRead>>

\* lines 97-99: the exists check, and on a miss the read and the crop
Check(i) ==
    /\ pc[i] = "check"
    /\ IF Hit(cache, insts[i], imageExt)
       THEN /\ pc' = [pc EXCEPT ![i] = "move"]
            /\ UNCHANGED <<cropCalls, readCalls>>
       ELSE /\ readCalls' = readCalls + 1
            /\ cropCalls' = cropCalls + 1
            /\ pc' = [pc EXCEPT ![i] =
                        IF insts[i].cropper_fn = 0 THEN "move" ELSE "write"]
    /\ wi' = [wi EXCEPT ![i] = 0]
    /\ UNCHANGED <<insts, cacheDir, cache, cache0, target, imageExt, cdirOf, outcome,
                   pPaths, pFns, sources, stage, lastRead>>

\* lines 100-101: one crop is written
Write(i) ==
    /\ pc[i] = "write"
    /\ cache' = WriteCrop(cache, insts[i], imageExt, wi[i])
    /\ wi' = [wi EXCEPT ![i] = wi[i] + 1]
    /\ pc' = [pc EXCEPT ![i] =
                IF wi[i] + 1 >= insts[i].cropper_fn THEN "move" ELSE "write"]
    /\ UNCHANGED <<insts, cacheDir, cache0, target, imageExt, cdirOf, outcome,
                   cropCalls, readCalls, pPaths, pFns, sources, stage, lastRead>>

\* line 104: os.rename
Move(i) ==
    /\ pc[i] = "move"
    /\ LET f == CachedFile(insts[i], imageExt)
       IN  IF Exists(cache, f)
           THEN /\ target' = MoveIn(target, f, cache[f])
                /\ cache' = MoveOut(cache, f)
                /\ outcome' = [outcome EXCEPT ![i] = "ok"]
                /\ pc' = [pc EXCEPT ![i] = "done"]
           ELSE /\ outcome' = [outcome EXCEPT ![i] = "FileNotFoundError"]
                /\ pc' = [pc EXCEPT ![i] = "failed"]
                /\ UNCHANGED <<cache, target>>
    /\ UNCHANGED <<insts, cacheDir, cache0, imageExt, cdirOf, wi, cropCalls, readCalls,
                   pPaths, pFns, sources, stage, lastRead>>

\* ------------------------------------------ CropImageSource.save, as a whole
Save(i) ==
    /\ pc[i] = "idle"
    /\ \E cdir \in {None, CacheDirName} :
         /\ cdirOf' = [cdirOf EXCEPT ![i] = cdir]
         /\ IF cdir = None
            THEN SaveNoCache(i)
            ELSE LET f == CachedFile(insts[i], imageExt)
                     hit == Hit(cache, insts[i], imageExt)
                     dir == Populated(cache, insts[i], imageExt)
                 IN  /\ cacheDir' = TRUE
                     /\ readCalls' = readCalls + (IF hit THEN 0 ELSE 1)
                     /\ cropCalls' = cropCalls + (IF hit THEN 0 ELSE 1)
                     /\ IF Exists(dir, f)
                        THEN /\ target' = MoveIn(target, f, dir[f])
                             /\ cache' = MoveOut(dir, f)
                             /\ outcome' = [outcome EXCEPT ![i] = "ok"]
                             /\ pc' = [pc EXCEPT ![i] = "done"]
                        ELSE /\ cache' = dir
                             /\ outcome' = [outcome EXCEPT ![i] = "FileNotFoundError"]
                             /\ pc' = [pc EXCEPT ![i] = "failed"]
                             /\ UNCHANGED target
                     /\ UNCHANGED wi
    /\ UNCHANGED <<insts, cache0, imageExt, pPaths, pFns, sources, stage, lastRead>>

\* saves one after another
Next == \E i \in Inst : Save(i)

Spec == Init /\ [][Next]_vars

\* saves whose steps interleave
NextConc ==
    \E i \in Inst : Begin(i) \/ Check(i) \/ Write(i) \/ Move(i)

\* the interleaved saves start from the instances whose idx is 0
InitConc == Init /\ \A i \in Inst : insts[i].idx = 0

SpecConc == InitConc /\ [][NextConc]_vars

\* ------------------------------------------- paths2image_sources and read()
InitPure ==
    /\ insts = [i \in Inst |-> CropImageSourceInit(OrigSource, 0, 0, Names[1])]
    /\ cache0 = EmptyDir
    /\ cache = EmptyDir
    /\ cacheDir = FALSE
    /\ target = EmptyDir
    /\ pc = [i \in Inst |-> "idle"]
    /\ imageExt = DefaultExt
    /\ cdirOf = [i \in Inst |-> None]
    /\ wi = [i \in Inst |-> 0]
    /\ outcome = [i \in Inst |-> "none"]
    /\ cropCalls = 0
    /\ readCalls = 0
    /\ pPaths \in PathLists
    /\ pFns \in FnsSet
    /\ sources = <<>>
    /\ stage = "input"
    /\ lastRead = NoRead

\* image_sources = paths2image_sources(paths, preprocess_fns)
Convert ==
    /\ stage = "input"
    /\ sources' = Paths2ImageSources(pPaths, pFns)
    /\ stage' = "sources"
    /\ UNCHANGED <<saveVars, pPaths, pFns, lastRead>>

\* image_sources[k].read()
ReadPath(k) ==
    /\ stage = "sources"
    /\ lastRead.by = "none"
    /\ k \in 1..Len(sources)
    /\ lastRead' = [by |-> "path", k |-> k, out |-> PathRead(sources[k])]
    /\ readCalls' = readCalls + 1
    /\ UNCHANGED <<insts, cacheDir, cache, cache0, target, pc, imageExt, cdirOf, wi,
                   outcome, cropCalls, pureVars>>

\* CropImageSource(image_sources[k], idx, cropper_fn, name).read()
ReadCrop(k) ==
    /\ stage = "sources"
    /\ lastRead.by = "none"
    /\ k \in 1..Len(sources)
    /\ \E ix \in IdxSet, n \in 0..MaxCrops, c \in 1..Len(Names) :
         lastRead' = [by |-> "crop", k |-> k,
                      out |-> CropRead(CropImageSourceInit(sources[k], ix, n, Names[c]))]
    /\ readCalls' = readCalls + 1
    /\ UNCHANGED <<insts, cacheDir, cache, cache0, target, pc, imageExt, cdirOf, wi,
                   outcome, cropCalls, pureVars>>

NextPure == Convert \/ \E k \in 1..MaxPaths : ReadPath(k) \/ ReadCrop(k)

SpecPure == InitPure /\ [][NextPure]_vars

\* ============================================================== properties
\* The terms of the specification, written from its words.

\* <target_dir or cache_dir>/<name><ext> of instance i
OwnFile(i) == <<insts[i].name, imageExt>>

\* the number of crops the cropper of instance i yields
NCrops(i) == insts[i].cropper_fn

\* the last underscore-delimited segment of the name of instance i
LastSeg(i) == insts[i].name[Len(insts[i].name)]

\* the last segment is one of 0..N-1
InRange(i) == \E j \in 0..(NCrops(i) - 1) : LastSeg(i) = Str(j)

\* the number the last segment stands for
SegNum(i) == CHOOSE j \in 0..9 : LastSeg(i) = Str(j)

\* the name is <base>_<k> with k one of 0..N-1
WellNamed(i) == Len(insts[i].name) >= 2 /\ InRange(i)

\* <name-without-last-underscore-segment>_<j><ext>
SiblingFile(i, j) ==
    LET nm == insts[i].name
        base == IF Len(nm) = 1 THEN <<"">> ELSE [k \in 1..(Len(nm) - 1) |-> nm[k]]
    IN  <<base \o <<Str(j)>>, imageExt>>

\* the files a populating save of instance i writes
SiblingFiles(i) == {SiblingFile(i, j) : j \in 0..(NCrops(i) - 1)}

\* crop j of the original image of instance i
CropImg(i, j) ==
    [of |-> [raw |-> insts[i].original_image_source.path,
             ops |-> insts[i].original_image_source.preprocessing_fns],
     part |-> j]

\* the instances are siblings: one base name, pairwise different names
Siblings ==
    \A i, j \in Inst :
        /\ Len(insts[i].name) = Len(insts[j].name)
        /\ \A k \in 1..(Len(insts[i].name) - 1) : insts[i].name[k] = insts[j].name[k]
        /\ i # j => insts[i].name # insts[j].name

AllDone == \A i \in Inst : pc[i] = "done"

\* every save made so far was given the cache directory
AllWithCache == \A i \in Inst : pc[i] # "idle" => cdirOf[i] = CacheDirName

\* a step that is the save of instance i, from call to return
SaveStep(i) == pc[i] = "idle" /\ pc'[i] \in {"done", "failed"}

\* the directory dir without file f, and with file f holding content
Without(dir, f) == [g \in (DOMAIN dir) \ {f} |-> dir[g]]
With(dir, f, content) ==
    [g \in (DOMAIN dir) \cup {f} |-> IF g = f THEN content ELSE dir[g]]

\* every instance's file is in the target directory and none is in the cache
MovedOut ==
    \A i \in Inst : OwnFile(i) \in DOMAIN target /\ OwnFile(i) \notin DOMAIN cache

\* C1 as stated: once all siblings have completed save with the same cache_dir,
\* from any cache state, each one's file is in target_dir and the cache holds
\* none of the moved files.
C1_AnyCacheState == (Siblings /\ AllDone) => MovedOut

\* the cache held all of the instances' files at the start, or none of them
AllOrNoneCached ==
    \/ \A i \in Inst : OwnFile(i) \in DOMAIN cache0
    \/ \A i \in Inst : OwnFile(i) \notin DOMAIN cache0

\* C1 amended: once all siblings have completed save with the same cache_dir,
\* starting from a cache that held all of their files or none of them, each
\* one's file is in target_dir and the cache holds none of the moved files.
C1_AllOrNoneCached == (Siblings /\ AllDone /\ AllOrNoneCached) => MovedOut

\* C1's case: all siblings saved, the first populated the cache, the rest hit
C1_Witness ==
    /\ Siblings /\ AllDone /\ AllOrNoneCached
    /\ cache0 = EmptyDir
    /\ cropCalls = 1

\* the premises of C2: siblings named base_k with k in 0..N-1, an empty cache
\* at the start, every save given the cache directory
C2_Premises ==
    /\ Siblings
    /\ \A j \in Inst : WellNamed(j)
    /\ cache0 = EmptyDir

\* C2: when siblings save one after another with the same, initially empty
\* cache_dir, cropper_fn and the original's read are invoked once in total, by
\* the first save; every later save only moves its own entry out of the cache.
C2_CroppedOnce ==
    [][\A i \in Inst :
         (SaveStep(i) /\ C2_Premises /\ AllWithCache /\ cdirOf'[i] = CacheDirName) =>
            /\ pc'[i] = "done"
            /\ cropCalls' = 1 /\ readCalls' = 1
            /\ (\E j \in Inst : pc[j] # "idle") =>
                  /\ cropCalls' = cropCalls /\ readCalls' = readCalls
                  /\ cache' = Without(cache, OwnFile(i))
                  /\ target' = With(target, OwnFile(i), cache[OwnFile(i)])]_vars

\* C2's case: as many siblings as crops, all saved, one crop computation
C2_Witness ==
    /\ C2_Premises /\ AllWithCache /\ AllDone
    /\ \A i \in Inst : NCrops(i) = NumInst
    /\ cropCalls = 1 /\ readCalls = 1

\* C3: if <cache_dir>/<name><ext> exists when save begins, the call invokes
\* neither cropper_fn nor the original's read, writes nothing new into the
\* cache, and only moves that file to <target_dir>/<name><ext>.
C3_HitOnlyMoves ==
    [][\A i \in Inst :
         (SaveStep(i) /\ cdirOf'[i] = CacheDirName /\ OwnFile(i) \in DOMAIN cache) =>
            /\ cropCalls' = cropCalls /\ readCalls' = readCalls
            /\ cache' = Without(cache, OwnFile(i))
            /\ target' = With(target, OwnFile(i), cache[OwnFile(i)])
            /\ cacheDir'
            /\ outcome'[i] = "ok"]_vars

\* C3's case: a save has completed and nothing was ever cropped
C3_Witness == cropCalls = 0 /\ \E i \in Inst : pc[i] = "done"

\* what C4 says a save of instance i does on a miss
C4_Effect(i) ==
    LET f == OwnFile(i)
    IN  /\ outcome'[i] = "ok"
        /\ f \in SiblingFiles(i)
        /\ DOMAIN cache' = ((DOMAIN cache) \cup SiblingFiles(i)) \ {f}
        /\ Cardinality(SiblingFiles(i) \cap DOMAIN cache') = NCrops(i) - 1
        /\ \A j \in 0..(NCrops(i) - 1) :
              SiblingFile(i, j) # f => cache'[SiblingFile(i, j)] = CropImg(i, j)
        /\ \A g \in (DOMAIN cache) \ SiblingFiles(i) : cache'[g] = cache[g]
        /\ DOMAIN target' = (DOMAIN target) \cup {f}
        /\ \E j \in 0..(NCrops(i) - 1) :
              SiblingFile(i, j) = f /\ target'[f] = CropImg(i, j)
        /\ \A g \in (DOMAIN target) \ {f} : target'[g] = target[g]

\* a step that is a save of instance i with cache_dir, its file not in the cache
MissStep(i) ==
    SaveStep(i) /\ cdirOf'[i] = CacheDirName /\ OwnFile(i) \notin DOMAIN cache

\* C4 as stated: on a miss, for a cropper yielding N >= 1 crops, the save writes
\* the N files <base>_<j><ext> with crop j in file j and moves
\* <cache_dir>/<name><ext> to target_dir: the cache keeps the N-1 siblings and
\* the target directory gains the one file.
C4_AnyName ==
    [][\A i \in Inst : (MissStep(i) /\ NCrops(i) >= 1) => C4_Effect(i)]_vars

\* C4 amended: the same, for a name <base>_<k> whose last segment k is one of
\* 0..N-1.
C4_WellNamed == [][\A i \in Inst : (MissStep(i) /\ WellNamed(i)) => C4_Effect(i)]_vars

\* C4's case: one save from an empty cache has left the other crops behind
C4_Witness ==
    /\ cache0 = EmptyDir /\ cropCalls = 1
    /\ \E i \in Inst :
          /\ pc[i] = "done" /\ NCrops(i) >= 2
          /\ \A j \in Inst \ {i} : pc[j] = "idle"
          /\ DOMAIN cache = SiblingFiles(i) \ {OwnFile(i)}
          /\ DOMAIN target = {OwnFile(i)}

\* C5: save without cache_dir always fails, and leaves the target directory
\* and the cache as they were.
C5_NoCacheFails ==
    [][\A i \in Inst :
         (SaveStep(i) /\ cdirOf'[i] = None) =>
            /\ pc'[i] = "failed"
            /\ outcome'[i] \in {"IndexError", "TypeError"}
            /\ target' = target /\ cache' = cache /\ cacheDir' = cacheDir]_vars

\* C5's case: a save without cache_dir has failed at the path of its output
C5_Witness ==
    \E i \in Inst : pc[i] = "failed" /\ cdirOf[i] = None /\ outcome[i] = "TypeError"

C9_Interleaved ==
    (Siblings /\ (\A j \in Inst : WellNamed(j)) /\ AllWithCache) =>
        \A i \in Inst :
            /\ pc[i] # "failed"
            /\ pc[i] \in {"check", "write", "move"} =>
                  ENABLED (Check(i) \/ Write(i) \/ Move(i))
            /\ pc[i] = "done" =>
                  /\ OwnFile(i) \in DOMAIN target
                  /\ target[OwnFile(i)] = CropImg(i, SegNum(i))

\* C9's case: every sibling passed the exists check before the cache was
\* populated, so each one cropped, and all have completed
C9_Witness ==
    /\ Siblings /\ (\A j \in Inst : WellNamed(j)) /\ AllWithCache
    /\ AllDone
    /\ cropCalls = NumInst

\* the preprocessing chain a source is given, None read as the empty chain
GivenFns == IF pFns = NoList THEN <<>> ELSE pFns

\* C6: CropImageSource.read() returns what original_image_source.read()
\* returns, the uncropped image, whatever idx and cropper_fn are, and does not
\* invoke cropper_fn.
C6_ReadDelegates ==
    lastRead.by = "crop" =>
        /\ lastRead.out = PathRead(sources[lastRead.k])
        /\ lastRead.out = [raw |-> pPaths[lastRead.k], ops |-> GivenFns]
        /\ cropCalls = 0

\* C6's case: a CropImageSource over a preprocessed source has been read
C6_Witness == lastRead.by = "crop" /\ Len(lastRead.out.ops) = 2

\* C7: PathImageSource(p, fns).read() is the decode of p with each function of
\* fns applied once, in list order; with fns empty or omitted, the raw decode.
C7_ReadApplies ==
    lastRead.by = "path" =>
        /\ lastRead.out.raw = pPaths[lastRead.k]
        /\ lastRead.out.ops = GivenFns

\* C7's case: a source with two different functions has been read
C7_Witness ==
    /\ lastRead.by = "path"
    /\ lastRead.out.ops = <<"f", "g">>

\* name is the file name of path without directory and without extension
IsStem(name, path) ==
    \E d \in 0..Len(path) :
        /\ d = 0 \/ path[d] = "/"
        /\ \A q \in (d + 1)..Len(path) : path[q] # "/"
        /\ LET file == [k \in 1..(Len(path) - d) |-> path[d + k]]
               hasExt == \E e \in 1..Len(file) :
                            file[e] = "." /\ \E q \in 1..(e - 1) : file[q] # "."
           IN  IF hasExt
               THEN \E e \in 1..Len(file) :
                        /\ file[e] = "."
                        /\ \A q \in (e + 1)..Len(file) : file[q] # "."
                        /\ name = [k \in 1..(e - 1) |-> file[k]]
               ELSE name = file

\* C8: paths2image_sources(paths, fns) returns as many sources as paths, the
\* i-th with path paths[i], with the name of paths[i]'s file without directory
\* and extension, and with the shared preprocessing chain.
C8_SourcesOfPaths ==
    stage = "sources" =>
        /\ Len(sources) = Len(pPaths)
        /\ \A k \in 1..Len(pPaths) :
              /\ sources[k].path = pPaths[k]
              /\ IsStem(sources[k].name, pPaths[k])
              /\ sources[k].preprocessing_fns = GivenFns

\* C8's case: two paths whose files have different names
C8_Witness ==
    /\ stage = "sources"
    /\ Len(sources) = 2
    /\ sources[1].name = <<"a">> /\ sources[2].name = <<".">>

====
